---- MODULE Spec2Model ----
(***************************************************************************)
(* Verification model of osyounis/islamic_prayer_time_app.                 *)
(*                                                                         *)
(* Units used throughout the model (the program works in floats and        *)
(* datetimes; the model keeps them as fixed-point integers):               *)
(*   - a Julian Date is kept in HALF DAYS (2 * JD), so that 2451544.5 is   *)
(*     4903089 and "differ by exactly 1.0" is "differ by exactly 2";       *)
(*   - an angle is kept in millidegrees;                                   *)
(*   - a trigonometric value is kept scaled by TrigScale;                  *)
(*   - a datetime is kept as seconds from 00:00 of the observation date    *)
(*     (negative: an earlier date, >= 86400: a later date).                *)
(***************************************************************************)
EXTENDS Integers, Sequences, FiniteSets, TLC

VARIABLES
    gdate,      \* Gregorian walk: the datetime handed to julian_date
    gorigin,    \* Gregorian walk: the first date of the walk
    gwalked,    \* Gregorian walk: calendar days from gorigin to gdate
    jd,         \* Hijri walk: the j_date handed to hijri_date (half days)
    hwalked,    \* Hijri walk: days stepped since the start of the walk
    mLen,       \* Hijri walk: days seen so far in the current Hijri month
    mDone,      \* Hijri walk: length of the last completed month (0: none)
    mSeen,      \* Hijri walk: a month boundary has been crossed
    yLen,       \* Hijri walk: days seen so far in the current Hijri year
    yDone,      \* Hijri walk: [year, len] of the last completed year
    ySeen,      \* Hijri walk: a year boundary has been crossed
    yComplete,  \* Hijri walk: number of years walked from first to last day
    yLeaps,     \* Hijri walk: how many of those years had 355 days
    args,       \* solver: the arguments last handed to UserSettings
    userSettings, \* solver: the UserSettings object last constructed
    calculator, \* solver: the PrayerTimeCalculator object
    calcDate,   \* solver: the datetime handed to calculate
    results,    \* solver: what calculate returned
    observed,   \* solver: the fajr, maghrib, isha times observed
    reversed,   \* solver: what reverse_calculate returned for them
    inferred,   \* solver: what reverse_fajr_angle, reverse_isha_angle returned
    again,      \* solver: calculate with the recovered angles as overrides
    methods,    \* solver: config.CALCULATION_METHODS as it stands
    twice,      \* solver: the same calculation made a second time
    rounding,   \* solver: a timestamp, round_time of it, round_time of that
    pc          \* solver: the call made last

calVars == <<gdate, gorigin, gwalked, jd, hwalked, mLen, mDone, mSeen,
             yLen, yDone, ySeen, yComplete, yLeaps>>

solverVars == <<args, userSettings, calculator, calcDate, results, observed,
                reversed, inferred, again, methods, twice, rounding, pc>>

vars == <<calVars, solverVars>>

----------------------------------------------------------------------------
(* Bounds of the model *)

MaxJulianWalk == 15      \* days stepped from each Gregorian start date
MaxHijriWalk == 10640    \* days stepped from each Julian start day

----------------------------------------------------------------------------
(* config.py constants *)

HIJRI_EPOCH_JD == 1948440
REFERENCE_DATE == [year |-> 1582, month |-> 10, day |-> 15]

----------------------------------------------------------------------------
(* utils/math_utils.py: degree trigonometry in fixed point.                *)
(* Angles are millidegrees, values are scaled by TrigScale.  asin/acos     *)
(* raise ValueError outside [-1, 1] (math domain error): the callers test  *)
(* InDomain before they use the value.                                     *)

TrigScale == 10000

Abs(x) == IF x < 0 THEN -x ELSE x
Sign(x) == IF x < 0 THEN -1 ELSE 1

\* _degree_to_radians on [0, 90] degrees: radians scaled by TrigScale
DegreeToRadians(mdeg) == (mdeg * 17453) \div 100000

\* math.cos on [0, pi/4] by its Taylor polynomial
CosSeries(x) ==
    LET x2 == (x * x) \div TrigScale
        t3 == TrigScale - (x2 \div 30)
        t2 == TrigScale - ((x2 * t3) \div (12 * TrigScale))
    IN  TrigScale - ((x2 * t2) \div (2 * TrigScale))

\* math.sin on [0, pi/4] by its Taylor polynomial
SinSeries(x) ==
    LET x2 == (x * x) \div TrigScale
        t3 == TrigScale - (x2 \div 42)
        t2 == TrigScale - ((x2 * t3) \div (20 * TrigScale))
        t1 == TrigScale - ((x2 * t2) \div (6 * TrigScale))
    IN  (x * t1) \div TrigScale

\* cosine of an angle of the first quadrant, 0 .. 90000
CosQ1(a) ==
    IF a <= 45000 THEN CosSeries(DegreeToRadians(a))
    ELSE SinSeries(DegreeToRadians(90000 - a))

dcos(angle) ==
    LET a == angle % 360000
        b == IF a > 180000 THEN 360000 - a ELSE a
    IN  (IF b <= 90000 THEN 1 ELSE -1)
        * CosQ1(IF b <= 90000 THEN b ELSE 180000 - b)

dsin(angle) == dcos(angle - 90000)

InDomain(value) == value >= -TrigScale /\ value <= TrigScale

\* the least angle of lo .. hi whose cosine is at most value
RECURSIVE AcosSearch(_, _, _)
AcosSearch(lo, hi, value) ==
    IF lo >= hi THEN lo
    ELSE LET mid == (lo + hi) \div 2
         IN  IF dcos(mid) <= value THEN AcosSearch(lo, mid, value)
             ELSE AcosSearch(mid + 1, hi, value)

\* dacos: 0 .. 180000, for a value in [-1, 1]
dacos(value) == AcosSearch(0, 180000, value)

\* dasin: -90000 .. 90000, for a value in [-1, 1]
dasin(value) == 90000 - dacos(value)

\* floor of the square root
RECURSIVE SqrtSearch(_, _, _)
SqrtSearch(lo, hi, n) ==
    IF lo >= hi THEN lo
    ELSE LET mid == (lo + hi + 1) \div 2
         IN  IF mid * mid <= n THEN SqrtSearch(mid, hi, n)
             ELSE SqrtSearch(lo, mid - 1, n)

Sqrt(n) == SqrtSearch(0, 46340, n)

\* datan2: -180000 .. 180000, for |y|, |x| <= 2 * TrigScale, not both 0
datan2(y_value, x_value) ==
    LET Quadrant(base) ==
            LET half == IF x_value >= 0 THEN base ELSE 180000 - base
            IN  IF y_value >= 0 THEN half ELSE -half
        Base(r, ay, ax) ==
            IF r = 0 THEN 0
            ELSE IF ax >= ay THEN dasin((ay * TrigScale) \div r)
            ELSE dacos((ax * TrigScale) \div r)
    IN  Quadrant(Base(Sqrt(y_value * y_value + x_value * x_value),
                      Abs(y_value), Abs(x_value)))

\* dcot: cos / sin; ZeroDivisionError when the sine is 0 (CotDefined)
CotDefined(angle) == dsin(angle) # 0
dcot(angle) == (dcos(angle) * TrigScale) \div dsin(angle)

\* dacot: 90 for 0, otherwise atan2(1, value) moved into (0, 180)
dacot(value) ==
    IF value = 0 THEN 90000
    ELSE LET Positive(angle) == IF angle < 0 THEN angle + 180000 ELSE angle
         IN  Positive(IF Abs(value) <= TrigScale
                      THEN datan2(TrigScale, value)
                      ELSE datan2((TrigScale * TrigScale) \div Abs(value),
                                  Sign(value) * TrigScale))

----------------------------------------------------------------------------
(* core/calendar.py *)

Date(y, m, d) == [year |-> y, month |-> m, day |-> d]

\* a datetime at 00:00 with its tzinfo: None, or a UTC offset in hours
DateTime(y, m, d, tz) == [year |-> y, month |-> m, day |-> d, tz |-> tz]

\* datetime comparison a < b on naive midnights
DateBefore(a, b) ==
    \/ a.year < b.year
    \/ a.year = b.year /\ a.month < b.month
    \/ a.year = b.year /\ a.month = b.month /\ a.day < b.day

\* _month_and_year_offset: <<month, year>> shifted for January and February;
\* raised is TRUE where the code raises ValueError.
MonthAndYearOffset(month, year) ==
    IF month > 2 THEN [month |-> month, year |-> year, raised |-> FALSE]
    ELSE IF month < 1 THEN [month |-> month, year |-> year, raised |-> TRUE]
    ELSE [month |-> month + 12, year |-> year - 1, raised |-> FALSE]

\* _b_value: 0 before REFERENCE_DATE, otherwise 2 - A + int(A / 4) with
\* A = int(date.year / 100), taken from the UNSHIFTED year of the date.
BValue(date) ==
    IF DateBefore(date, REFERENCE_DATE) THEN 0
    ELSE LET a_value == date.year \div 100
         IN  2 - a_value + (a_value \div 4)

\* julian_date, in half days:
\* int(365.25*(Y+4716)) + int(30.6001*(M+1)) + D + B - 1524.5
julian_date(date) ==
    LET my == MonthAndYearOffset(date.month, date.year)
        b_offset == BValue(date)
    IN  2 * (((36525 * (my.year + 4716)) \div 100)
             + ((306001 * (my.month + 1)) \div 10000)
             + date.day + b_offset) - 3049

\* hijri_date with the fractional half day rounded up, not floored
hijri_date_ceil(j_date, d_correction) ==
    LET l0 == ((j_date + 2 * d_correction + 1) \div 2) - HIJRI_EPOCH_JD + 10632
        n  == (l0 - 1) \div 10631
        l1 == l0 - 10631 * n + 354
        j  == ((10985 - l1) \div 5316) * ((50 * l1) \div 17719)
              + (l1 \div 5670) * ((43 * l1) \div 15238)
        l2 == l1 - ((30 - j) \div 15) * ((17719 * j) \div 50)
                 - (j \div 16) * ((15238 * j) \div 43) + 29
        month == (24 * l2) \div 709
        day == l2 - ((709 * month) \div 24)
        year == 30 * n + j - 30
    IN  [day |-> day, month |-> month, year |-> year]

\* hijri_date with the month taken from a 30-day average (24 * l / 720)
hijri_date_month(j_date, d_correction) ==
    LET l0 == ((j_date + 2 * d_correction) \div 2) - HIJRI_EPOCH_JD + 10632
        n  == (l0 - 1) \div 10631
        l1 == l0 - 10631 * n + 354
        j  == ((10985 - l1) \div 5316) * ((50 * l1) \div 17719)
              + (l1 \div 5670) * ((43 * l1) \div 15238)
        l2 == l1 - ((30 - j) \div 15) * ((17719 * j) \div 50)
                 - (j \div 16) * ((15238 * j) \div 43) + 29
        month == (24 * l2) \div 720
        day == l2 - ((709 * month) \div 24)
        year == 30 * n + j - 30
    IN  [day |-> day, month |-> month, year |-> year]

\* hijri_date with the year of the cycle located by 5316 / 17720
hijri_date_year(j_date, d_correction) ==
    LET l0 == ((j_date + 2 * d_correction) \div 2) - HIJRI_EPOCH_JD + 10632
        n  == (l0 - 1) \div 10631
        l1 == l0 - 10631 * n + 354
        j  == ((10985 - l1) \div 5316) * ((50 * l1) \div 17720)
              + (l1 \div 5670) * ((43 * l1) \div 15238)
        l2 == l1 - ((30 - j) \div 15) * ((17719 * j) \div 50)
                 - (j \div 16) * ((15238 * j) \div 43) + 29
        month == (24 * l2) \div 709
        day == l2 - ((709 * month) \div 24)
        year == 30 * n + j - 30
    IN  [day |-> day, month |-> month, year |-> year]

\* hijri_date with the year counted in cycles of 10630 days
hijri_date_period(j_date, d_correction) ==
    LET l0 == ((j_date + 2 * d_correction) \div 2) - HIJRI_EPOCH_JD + 10632
        n  == (l0 - 1) \div 10631
        l1 == l0 - 10631 * n + 354
        j  == ((10985 - l1) \div 5316) * ((50 * l1) \div 17719)
              + (l1 \div 5670) * ((43 * l1) \div 15238)
        l2 == l1 - ((30 - j) \div 15) * ((17719 * j) \div 50)
                 - (j \div 16) * ((15238 * j) \div 43) + 29
        month == (24 * l2) \div 709
        day == l2 - ((709 * month) \div 24)
        year == 30 * ((l0 - 1) \div 10630) + j - 30
    IN  [day |-> day, month |-> month, year |-> year]

\* hijri_date(j_date, d_correction); j_date in half days.
hijri_date(j_date, d_correction) ==
    LET l0 == ((j_date + 2 * d_correction) \div 2) - HIJRI_EPOCH_JD + 10632
        n  == (l0 - 1) \div 10631
        l1 == l0 - 10631 * n + 354
        j  == ((10985 - l1) \div 5316) * ((50 * l1) \div 17719)
              + (l1 \div 5670) * ((43 * l1) \div 15238)
        l2 == l1 - ((30 - j) \div 15) * ((17719 * j) \div 50)
                 - (j \div 16) * ((15238 * j) \div 43) + 29
        month == (24 * l2) \div 709
        day == l2 - ((709 * month) \div 24)
        year == 30 * n + j - 30
    IN  [day |-> day, month |-> month, year |-> year]

----------------------------------------------------------------------------
(* config.py: the method table and the settings object *)

HIGH_LATITUDE_THRESHOLD == 48500
DEFAULT_CALCULATION_METHOD == "isna"
DEFAULT_ASR_METHOD == "standard"
DEFAULT_HIJRI_CORRECTION == 0

\* Python's None for an optional number
None == -1000000

AngleMethod(fajr, isha) ==
    [fajr_angle |-> fajr, isha_angle |-> isha, isha_type |-> "angle",
     isha_offset_normal |-> None, isha_offset_ramadan |-> None]

FixedMethod(fajr, normal, ramadan) ==
    [fajr_angle |-> fajr, isha_angle |-> None, isha_type |-> "fixed_time",
     isha_offset_normal |-> normal, isha_offset_ramadan |-> ramadan]

CALCULATION_METHODS ==
    [mwl   |-> AngleMethod(18000, 17000),
     isna  |-> AngleMethod(15000, 15000),
     egas  |-> AngleMethod(19500, 17500),
     uqu   |-> FixedMethod(18500, 90, 120),
     uisk  |-> AngleMethod(18000, 18000),
     ut    |-> AngleMethod(17700, 14000),
     lri   |-> AngleMethod(16000, 14000),
     gulf  |-> FixedMethod(19500, 90, 90),
     jakim |-> AngleMethod(20000, 18000)]

MethodKeys == DOMAIN CALCULATION_METHODS

\* get_method_config (for a key of the table; ValueError otherwise)
get_method_config(method_key) == methods[method_key]

\* the settings object, and the outcome of a constructor that raised
NoSettings ==
    [raised |-> TRUE, calculation_method |-> "", asr_method |-> "",
     hijri_correction |-> 0, fajr_angle |-> None, isha_angle |-> None,
     isha_interval |-> None]

\* UserSettings.__init__ without the check of both Isha overrides
UserSettings_both(method, asr_method, hijri_correction, fajr_angle, isha_angle, isha_interval) ==
    IF method \notin MethodKeys THEN NoSettings
    ELSE IF asr_method \notin {"standard", "hanafi"} THEN NoSettings
    ELSE IF fajr_angle # None /\ ~(0 < fajr_angle /\ fajr_angle < 30000)
    THEN NoSettings
    ELSE IF isha_angle # None /\ ~(0 < isha_angle /\ isha_angle < 30000)
    THEN NoSettings
    ELSE IF isha_interval # None /\ ~(0 < isha_interval /\ isha_interval <= 240)
    THEN NoSettings
    ELSE [raised |-> FALSE, calculation_method |-> method,
          asr_method |-> asr_method, hijri_correction |-> hijri_correction,
          fajr_angle |-> fajr_angle, isha_angle |-> isha_angle,
          isha_interval |-> isha_interval]

\* UserSettings.__init__ with 0 accepted as an angle and as an interval
UserSettings_zero(method, asr_method, hijri_correction, fajr_angle, isha_angle, isha_interval) ==
    IF method \notin MethodKeys THEN NoSettings
    ELSE IF asr_method \notin {"standard", "hanafi"} THEN NoSettings
    ELSE IF fajr_angle # None /\ ~(0 <= fajr_angle /\ fajr_angle < 30000)
    THEN NoSettings
    ELSE IF isha_angle # None /\ ~(0 <= isha_angle /\ isha_angle < 30000)
    THEN NoSettings
    ELSE IF isha_interval # None /\ ~(0 <= isha_interval /\ isha_interval <= 240)
    THEN NoSettings
    ELSE IF isha_angle # None /\ isha_interval # None THEN NoSettings
    ELSE [raised |-> FALSE, calculation_method |-> method,
          asr_method |-> asr_method, hijri_correction |-> hijri_correction,
          fajr_angle |-> fajr_angle, isha_angle |-> isha_angle,
          isha_interval |-> isha_interval]

\* UserSettings.__init__
UserSettings(method, asr_method, hijri_correction, fajr_angle, isha_angle, isha_interval) ==
    IF method \notin MethodKeys THEN NoSettings
    ELSE IF asr_method \notin {"standard", "hanafi"} THEN NoSettings
    ELSE IF fajr_angle # None /\ ~(0 < fajr_angle /\ fajr_angle < 30000)
    THEN NoSettings
    ELSE IF isha_angle # None /\ ~(0 < isha_angle /\ isha_angle < 30000)
    THEN NoSettings
    ELSE IF isha_interval # None /\ ~(0 < isha_interval /\ isha_interval <= 240)
    THEN NoSettings
    ELSE IF isha_angle # None /\ isha_interval # None THEN NoSettings
    ELSE [raised |-> FALSE, calculation_method |-> method,
          asr_method |-> asr_method, hijri_correction |-> hijri_correction,
          fajr_angle |-> fajr_angle, isha_angle |-> isha_angle,
          isha_interval |-> isha_interval]

\* get_fajr_angle
get_fajr_angle(method_key, settings) ==
    IF settings.fajr_angle # None THEN settings.fajr_angle
    ELSE get_method_config(method_key).fajr_angle

\* get_isha_config with a custom isha_angle left out for a fixed-time method
get_isha_config_method(method_key, settings) ==
    IF settings.isha_interval # None
    THEN [type |-> "fixed_time", angle |-> None,
          offset_normal |-> settings.isha_interval,
          offset_ramadan |-> settings.isha_interval]
    ELSE LET config == get_method_config(method_key)
         IN  IF config.isha_type = "fixed_time"
             THEN [type |-> "fixed_time", angle |-> None,
                   offset_normal |-> config.isha_offset_normal,
                   offset_ramadan |-> config.isha_offset_ramadan]
             ELSE IF settings.isha_angle # None
             THEN [type |-> "angle", angle |-> settings.isha_angle,
                   offset_normal |-> None, offset_ramadan |-> None]
             ELSE [type |-> "angle", angle |-> config.isha_angle,
                   offset_normal |-> None, offset_ramadan |-> None]

\* get_isha_config
get_isha_config(method_key, settings) ==
    IF settings.isha_interval # None
    THEN [type |-> "fixed_time", angle |-> None,
          offset_normal |-> settings.isha_interval,
          offset_ramadan |-> settings.isha_interval]
    ELSE IF settings.isha_angle # None
    THEN [type |-> "angle", angle |-> settings.isha_angle,
          offset_normal |-> None, offset_ramadan |-> None]
    ELSE LET config == get_method_config(method_key)
         IN  IF config.isha_type = "angle"
             THEN [type |-> "angle", angle |-> config.isha_angle,
                   offset_normal |-> None, offset_ramadan |-> None]
             ELSE [type |-> "fixed_time", angle |-> None,
                   offset_normal |-> config.isha_offset_normal,
                   offset_ramadan |-> config.isha_offset_ramadan]

----------------------------------------------------------------------------
(* core/astronomy.py *)

\* sun_coordinates(j_date); j_date in half days, angles in millidegrees
sun_coordinates(j_date) ==
    LET Equatorial(corr_mean_solar_lng, mean_anomaly, ecliptic_lng,
                   obli_ecliptic) ==
            [solar_lng |-> corr_mean_solar_lng,
             mean_anomaly |-> mean_anomaly,
             ecliptic_lng |-> ecliptic_lng,
             obliq_ecliptic |-> obli_ecliptic,
             \* right_ascension
             ascension |->
                datan2((dcos(obli_ecliptic) * dsin(ecliptic_lng)) \div TrigScale,
                       dcos(ecliptic_lng)),
             declination |->
                dasin((dsin(obli_ecliptic) * dsin(ecliptic_lng)) \div TrigScale)]
        Ecliptic(corr_mean_solar_lng, mean_anomaly, obli_ecliptic) ==
            Equatorial(corr_mean_solar_lng, mean_anomaly,
                corr_mean_solar_lng + ((1915 * dsin(mean_anomaly)) \div TrigScale)
                                    + ((20 * dsin(2 * mean_anomaly)) \div TrigScale),
                obli_ecliptic)
        Elements(num_days2) ==
            Ecliptic(
                (280466 + 492 * num_days2 + ((8237 * num_days2) \div 10000)) % 360000,
                (357528 + 492 * num_days2 + ((8002 * num_days2) \div 10000)) % 360000,
                23440 - ((2 * num_days2) \div 10000))
    IN  Elements(j_date - 4903090)

\* an angle of millidegrees as time: 4 minutes per degree, in seconds
DegreesToSeconds(mdeg) == (mdeg * 6) \div 25

\* _equation_of_time, in seconds: (L - alpha) * 4 minutes
equation_of_time(sun_data) ==
    DegreesToSeconds(sun_data.solar_lng - sun_data.ascension)

----------------------------------------------------------------------------
(* calculator/times.py.  A function that can raise returns a record with   *)
(* raised = TRUE and no time.                                              *)

Raised == [raised |-> TRUE, time |-> 0]
At(t) == [raised |-> FALSE, time |-> t]

\* the argument of the arc-cosine of _hour_correction; a zero denominator
\* (the float quotient is then far outside [-1, 1]) is put outside the domain
HourAngleArgument(theta, lat, delta) ==
    LET den == (dcos(lat) * dcos(delta)) \div TrigScale
        num == dcos(theta) - ((dsin(lat) * dsin(delta)) \div TrigScale)
    IN  IF den = 0 THEN 2 * TrigScale ELSE (num * TrigScale) \div den

\* _hour_correction is defined when math.acos does not raise
HourCorrectionDefined(theta, lat, sun_data) ==
    InDomain(HourAngleArgument(theta, lat, sun_data.declination))

\* _hour_correction, in seconds (hour_angle / 15 hours)
hour_correction(theta, lat, sun_data) ==
    DegreesToSeconds(dacos(HourAngleArgument(theta, lat, sun_data.declination)))

\* round(lng / 15): Python rounds a tie to the even integer
RoundHalfEven(num, den) ==
    LET q == num \div den
        r2 == 2 * (num % den)
    IN  IF r2 < den THEN q
        ELSE IF r2 > den THEN q + 1
        ELSE IF q % 2 = 0 THEN q ELSE q + 1

\* the UTC offset midday_time_calc works with, in hours
TzOffset(timestamp, lng) ==
    IF timestamp.tz # None THEN timestamp.tz ELSE RoundHalfEven(lng, 15000)

\* midday_time_calc: seconds after 00:00 of the timestamp's date
midday_time_calc(timestamp, lng, sun_data) ==
    LET tz_offset == TzOffset(timestamp, lng)
        lng_diff == DegreesToSeconds((tz_offset * 15000) - lng)
        equ_time == equation_of_time(sun_data)
    IN  43200 + lng_diff - equ_time

\* dhuhr_time_calc
dhuhr_time_calc(timestamp) == timestamp + 65

\* a duration of seconds times angle / 60, the angle in millidegrees
NightShare(night_duration, angle) ==
    ((night_duration \div 1000) * angle) \div 60
    + (((night_duration % 1000) * angle) \div 60000)

\* fajr_time_calc; timedelta(24) is 24 days
fajr_time_calc(timestamp, lat, sun_data, conven, sunrise_time, maghrib_time, settings) ==
    LET fajr_angle == get_fajr_angle(conven, settings)
        theta == 90000 + fajr_angle
    IN  IF Abs(lat) <= HIGH_LATITUDE_THRESHOLD
        THEN IF HourCorrectionDefined(theta, lat, sun_data)
             THEN At(timestamp - hour_correction(theta, lat, sun_data))
             ELSE Raised
        ELSE LET night_duration == (sunrise_time + 24 * 86400) - maghrib_time
             IN  At(sunrise_time - NightShare(night_duration, fajr_angle))

\* 90 + 0.83333 + 0.0347 * math.sqrt(elevation), for elevation >= 0 metres
HorizonAngle(elevation) == 90833 + ((347 * Sqrt(elevation * 10000)) \div 1000)

\* sunrise_time_calc; math.sqrt raises ValueError below 0
sunrise_time_calc(timestamp, lat, sun_data, elevation) ==
    LET Rise(theta) ==
            IF HourCorrectionDefined(theta, lat, sun_data)
            THEN At(timestamp - hour_correction(theta, lat, sun_data))
            ELSE Raised
    IN  IF elevation < 0 THEN Raised ELSE Rise(HorizonAngle(elevation))

\* the sun angle of Asr with the shadow factors of the two schools exchanged
AsrAngle_swapped(a, hanafi) ==
    IF hanafi THEN Abs(90000 - dacot(TrigScale + dcot(a)))
    ELSE Abs(90000 - dacot(2 * TrigScale + dcot(a)))

\* the sun angle of Asr for a noon altitude a: |90 - acot(k + cot(a))|
AsrAngle(a, hanafi) ==
    IF ~hanafi THEN Abs(90000 - dacot(TrigScale + dcot(a)))
    ELSE Abs(90000 - dacot(2 * TrigScale + dcot(a)))

\* asr_time_calc
asr_time_calc(timestamp, lat, sun_data, hanafi) ==
    LET Shadow(theta) ==
            IF HourCorrectionDefined(theta, lat, sun_data)
            THEN At(timestamp + hour_correction(theta, lat, sun_data))
            ELSE Raised
        Altitude(a) ==
            IF ~CotDefined(a) THEN Raised ELSE Shadow(AsrAngle(a, hanafi))
        Noon(v) == IF ~InDomain(v) THEN Raised ELSE Altitude(dasin(v))
        delta == sun_data.declination
    IN  Noon(((dsin(lat) * dsin(delta)) \div TrigScale)
             + ((dcos(lat) * dcos(delta)) \div TrigScale))

\* maghrib_time_calc
maghrib_time_calc(timestamp, lat, sun_data, elevation) ==
    LET Set(theta) ==
            IF HourCorrectionDefined(theta, lat, sun_data)
            THEN At(timestamp + hour_correction(theta, lat, sun_data))
            ELSE Raised
    IN  IF elevation < 0 THEN Raised ELSE Set(HorizonAngle(elevation))

\* isha_time_calc with the normal offset in every month
isha_time_calc_normal(timestamp, lat, sun_data, conven, maghrib_time, sunrise_time, ramadan, settings) ==
    LET isha_config == get_isha_config(conven, settings)
    IN  IF isha_config.type = "fixed_time"
        THEN At(maghrib_time + 60 * isha_config.offset_normal)
        ELSE LET isha_angle == isha_config.angle
                 theta == 90000 + isha_angle
             IN  IF Abs(lat) <= HIGH_LATITUDE_THRESHOLD
                 THEN IF HourCorrectionDefined(theta, lat, sun_data)
                      THEN At(timestamp + hour_correction(theta, lat, sun_data))
                      ELSE Raised
                 ELSE LET night_duration == (sunrise_time + 86400) - maghrib_time
                      IN  At(maghrib_time + NightShare(night_duration, isha_angle))

\* isha_time_calc
isha_time_calc(timestamp, lat, sun_data, conven, maghrib_time, sunrise_time, ramadan, settings) ==
    LET isha_config == get_isha_config(conven, settings)
    IN  IF isha_config.type = "fixed_time"
        THEN LET offset_minutes == IF ramadan THEN isha_config.offset_ramadan
                                   ELSE isha_config.offset_normal
             IN  At(maghrib_time + 60 * offset_minutes)
        ELSE LET isha_angle == isha_config.angle
                 theta == 90000 + isha_angle
             IN  IF Abs(lat) <= HIGH_LATITUDE_THRESHOLD
                 THEN IF HourCorrectionDefined(theta, lat, sun_data)
                      THEN At(timestamp + hour_correction(theta, lat, sun_data))
                      ELSE Raised
                 ELSE LET night_duration == (sunrise_time + 86400) - maghrib_time
                      IN  At(maghrib_time + NightShare(night_duration, isha_angle))

----------------------------------------------------------------------------
(* core/qibla.py.  The bearing is rounded to 0.01 degrees, so y and x are  *)
(* kept to eight decimals (FineScale) and the trigonometric functions of   *)
(* math_utils.py are evaluated to that precision here.                     *)

LAT_AL_KAABA == 21422
LNG_AL_KAABA == 39826

FineScale == 100000000

\* a * b / FineScale for 0 <= a, b < 2 * FineScale, by four-digit limbs
FineMulAbs(a, b) ==
    ((a \div 10000) * (b \div 10000))
    + ((((a \div 10000) * (b % 10000)) + ((a % 10000) * (b \div 10000))
        + (((a % 10000) * (b % 10000)) \div 10000)) \div 10000)

FineMul(a, b) ==
    (IF (a < 0) = (b < 0) THEN 1 ELSE -1) * FineMulAbs(Abs(a), Abs(b))

\* _degree_to_radians on [0, 90] degrees: radians scaled by FineScale
FineRadians(mdeg) == (mdeg * 1745) + ((mdeg * 3293) \div 10000)

\* math.cos on [0, pi/4] by its Taylor polynomial, from the square of x
FineCosSeries(x2) ==
    FineScale - (FineMul(x2,
    FineScale - (FineMul(x2,
    FineScale - (FineMul(x2,
    FineScale - (FineMul(x2,
    FineScale - (x2 \div 90)) \div 56)) \div 30)) \div 12)) \div 2)

\* math.sin on [0, pi/4] by its Taylor polynomial
FineSinSeries(x, x2) ==
    FineMul(x,
    FineScale - (FineMul(x2,
    FineScale - (FineMul(x2,
    FineScale - (FineMul(x2,
    FineScale - (FineMul(x2,
    FineScale - (x2 \div 110)) \div 72)) \div 42)) \div 20)) \div 6))

FineSquare(x) == FineMul(x, x)

\* cosine of an angle of the first quadrant, 0 .. 90000
FineCosQ1(a) ==
    IF a <= 45000 THEN FineCosSeries(FineSquare(FineRadians(a)))
    ELSE FineSinSeries(FineRadians(90000 - a),
                       FineSquare(FineRadians(90000 - a)))

\* dcos to eight decimals
FineCos(angle) ==
    LET Fold(b) == (IF b <= 90000 THEN 1 ELSE -1)
                   * FineCosQ1(IF b <= 90000 THEN b ELSE 180000 - b)
        Half(a) == Fold(IF a > 180000 THEN 360000 - a ELSE a)
    IN  Half(angle % 360000)

\* dsin to eight decimals
FineSin(angle) == FineCos(angle - 90000)

\* the greatest angle of lo .. hi whose tangent is at most ay / ax
RECURSIVE AtanSearch(_, _, _, _)
AtanSearch(lo, hi, ay, ax) ==
    IF lo >= hi THEN lo
    ELSE LET Step(mid) ==
                 IF FineMul(FineSin(mid), ax) <= FineMul(FineCos(mid), ay)
                 THEN AtanSearch(mid, hi, ay, ax)
                 ELSE AtanSearch(lo, mid - 1, ay, ax)
         IN  Step((lo + hi + 1) \div 2)

\* datan2 of eight-decimal values: -180000 .. 180000; math.atan2(0, 0) is 0
FineAtan2(y_value, x_value) ==
    LET Quadrant(base) ==
            LET half == IF x_value >= 0 THEN base ELSE 180000 - base
            IN  IF y_value >= 0 THEN half ELSE -half
    IN  IF y_value = 0 /\ x_value = 0 THEN 0
        ELSE Quadrant(AtanSearch(0, 90000, Abs(y_value), Abs(x_value)))

\* qibla_direction, in hundredths of a degree (round(..., 2))
qibla_direction(your_latitude, your_longitude) ==
    LET Bearing(theta) == RoundHalfEven((360000 + theta) % 360000, 10)
        Theta(delta_lng) ==
            FineAtan2(
                FineMul(FineSin(delta_lng), FineCos(LAT_AL_KAABA)),
                FineMul(FineCos(your_latitude), FineSin(LAT_AL_KAABA))
                - FineMul(FineMul(FineSin(your_latitude), FineCos(LAT_AL_KAABA)),
                          FineCos(delta_lng)))
    IN  Bearing(Theta(LNG_AL_KAABA - your_longitude))

----------------------------------------------------------------------------
(* utils/time_utils.py.  round_time reads the second and the microsecond of *)
(* a datetime: a timestamp is kept here as whole seconds from 00:00 of the  *)
(* observation date and the microsecond within the second.                  *)

Stamp(seconds, microsecond) == [seconds |-> seconds, microsecond |-> microsecond]

\* round_time that drops the seconds
round_time_floor(timestamp) ==
    Stamp(timestamp.seconds - (timestamp.seconds % 60), 0)

\* round_time: a minute is added when second >= 30, then second and
\* microsecond are replaced by 0
round_time(timestamp) ==
    LET Replaced(moved) == Stamp(moved - (moved % 60), 0)
    IN  IF timestamp.seconds % 60 >= 30
        THEN Replaced(timestamp.seconds + 60)
        ELSE Replaced(timestamp.seconds)

\* round_time of a time of whole seconds
RoundedTime(time) == round_time(Stamp(time, 0)).seconds

----------------------------------------------------------------------------
(* calculator/calculator.py *)

\* the outcome of a calculate() that raised
NoResult ==
    [raised |-> TRUE, qibla |-> 0, tz |-> None,
     hijri_date |-> [day |-> 0, month |-> 0, year |-> 0],
     midday |-> 0, fajr |-> 0, sunrise |-> 0, dhuhr |-> 0, asr |-> 0,
     maghrib |-> 0, isha |-> 0,
     times_rounded |-> [fajr |-> 0, sunrise |-> 0, dhuhr |-> 0, asr |-> 0,
                        maghrib |-> 0, isha |-> 0]]

\* PrayerTimeCalculator.calculate(date) on a calculator object; midday is the
\* local of calculate that the times are derived from.
\* Each local of calculate is the parameter of one step, in the order
\* calculate assigns them.
calculate(self, date) ==
    LET Compiled(hij_date, midday, dhuhr, sunrise, maghrib, fajr, isha, asr) ==
            IF sunrise.raised \/ maghrib.raised THEN NoResult
            ELSE IF fajr.raised \/ isha.raised \/ asr.raised THEN NoResult
            ELSE [raised |-> FALSE,
                  qibla |-> qibla_direction(self.latitude, self.longitude),
                  tz |-> date.tz, hijri_date |-> hij_date,
                  midday |-> midday, fajr |-> fajr.time, sunrise |-> sunrise.time,
                  dhuhr |-> dhuhr, asr |-> asr.time, maghrib |-> maghrib.time,
                  isha |-> isha.time,
                  times_rounded |->
                     [fajr |-> RoundedTime(fajr.time),
                      sunrise |-> RoundedTime(sunrise.time),
                      dhuhr |-> RoundedTime(dhuhr),
                      asr |-> RoundedTime(asr.time),
                      maghrib |-> RoundedTime(maghrib.time),
                      isha |-> RoundedTime(isha.time)]]
        Prayers(hij_date, sun_info, midday, dhuhr, sunrise, maghrib) ==
            Compiled(hij_date, midday, dhuhr, sunrise, maghrib,
                fajr_time_calc(dhuhr, self.latitude, sun_info,
                               self.settings.calculation_method,
                               sunrise.time, maghrib.time, self.settings),
                \* is_ramadan
                isha_time_calc(dhuhr, self.latitude, sun_info,
                               self.settings.calculation_method,
                               maghrib.time, sunrise.time, hij_date.month = 9,
                               self.settings),
                \* use_hanafi
                asr_time_calc(dhuhr, self.latitude, sun_info,
                              self.settings.asr_method = "hanafi"))
        Horizon(hij_date, sun_info, midday, dhuhr) ==
            Prayers(hij_date, sun_info, midday, dhuhr,
                sunrise_time_calc(dhuhr, self.latitude, sun_info, self.elevation),
                maghrib_time_calc(dhuhr, self.latitude, sun_info, self.elevation))
        Midday(hij_date, sun_info, midday) ==
            Horizon(hij_date, sun_info, midday, dhuhr_time_calc(midday))
        Sun(hij_date, sun_info) ==
            Midday(hij_date, sun_info,
                   midday_time_calc(date, self.longitude, sun_info))
        Day(jul_date) ==
            Sun(hijri_date(jul_date, self.settings.hijri_correction),
                sun_coordinates(jul_date))
    IN  Day(julian_date(date))

\* calculate_prayer_times with the settings of another call left out
calculate_prayer_times_default(latitude, longitude, elevation, date, settings) ==
    calculate([exists |-> TRUE, latitude |-> latitude, longitude |-> longitude,
               elevation |-> elevation,
               settings |-> UserSettings(DEFAULT_CALCULATION_METHOD,
                                         DEFAULT_ASR_METHOD,
                                         DEFAULT_HIJRI_CORRECTION,
                                         None, None, None)], date)

\* calculate_prayer_times(latitude, longitude, elevation, date, settings):
\* a new PrayerTimeCalculator and its calculate(date)
calculate_prayer_times(latitude, longitude, elevation, date, settings) ==
    calculate([exists |-> TRUE, latitude |-> latitude, longitude |-> longitude,
               elevation |-> elevation, settings |-> settings], date)

----------------------------------------------------------------------------
(* calculator/reverse_calculator.py *)

\* the hour-angle check with every hour angle up to 360 degrees let through
ReverseHourDefined_full(time_offset) ==
    LET hour_angle == (time_offset * 25) \div 6
    IN  0 <= time_offset /\ hour_angle <= 360000

\* _reverse_hour_correction: theta for a time offset in seconds
ReverseHourDefined(time_offset) ==
    LET hour_angle == (time_offset * 25) \div 6
    IN  0 <= time_offset /\ hour_angle <= 180000

Clamp(v) == IF v > TrigScale THEN TrigScale
            ELSE IF v < -TrigScale THEN -TrigScale ELSE v

reverse_hour_correction(time_offset, lat, sun_data) ==
    LET delta == sun_data.declination
        hour_angle == (time_offset * 25) \div 6
        cos_theta ==
            ((((dcos(hour_angle) * dcos(lat)) \div TrigScale) * dcos(delta))
                \div TrigScale)
            + ((dsin(lat) * dsin(delta)) \div TrigScale)
    IN  dacos(Clamp(cos_theta))

\* _reverse_hour_correction as a call: it raises ValueError or returns theta
NoTheta == [raised |-> TRUE, theta |-> 0]
ReverseHourCorrection(time_offset, lat, sun_data) ==
    IF ~ReverseHourDefined(time_offset) THEN NoTheta
    ELSE [raised |-> FALSE,
          theta |-> reverse_hour_correction(time_offset, lat, sun_data)]

\* 60 * time_diff / night, in millidegrees, for time_diff >= 0 and night > 0
PositiveShare(time_diff, night) ==
    LET q == time_diff \div night
        r == time_diff % night
        a1 == (r * 6000) \div night
        r1 == (r * 6000) % night
    IN  q * 60000 + a1 * 10 + ((r1 * 10) \div night)

\* 60 * time_diff / night_duration, in millidegrees (night_duration # 0;
\* the callers have checked that time_diff > 0)
AngleOfShare(time_diff, night_duration) ==
    IF night_duration > 0 THEN PositiveShare(time_diff, night_duration)
    ELSE -PositiveShare(time_diff, -night_duration)

NoAngle == [raised |-> TRUE, angle |-> 0, method |-> "", valid |-> FALSE,
            warnings |-> <<>>]

\* the range checks with an angle of 0 degrees marked invalid
AngleResult_positive(angle, method, warnings, name, typical_max) ==
    IF angle <= 0 \/ angle > 30000
    THEN [raised |-> FALSE, angle |-> angle, method |-> method, valid |-> FALSE,
          warnings |-> Append(warnings, name \o " outside valid range")]
    ELSE IF angle < 12000 \/ angle > typical_max
    THEN [raised |-> FALSE, angle |-> angle, method |-> method, valid |-> TRUE,
          warnings |-> Append(warnings, name \o " outside typical range")]
    ELSE [raised |-> FALSE, angle |-> angle, method |-> method, valid |-> TRUE,
          warnings |-> warnings]

\* the range checks that close reverse_fajr_angle and reverse_isha_angle
AngleResult(angle, method, warnings, name, typical_max) ==
    IF angle < 0 \/ angle > 30000
    THEN [raised |-> FALSE, angle |-> angle, method |-> method, valid |-> FALSE,
          warnings |-> Append(warnings, name \o " outside valid range")]
    ELSE IF angle < 12000 \/ angle > typical_max
    THEN [raised |-> FALSE, angle |-> angle, method |-> method, valid |-> TRUE,
          warnings |-> Append(warnings, name \o " outside typical range")]
    ELSE [raised |-> FALSE, angle |-> angle, method |-> method, valid |-> TRUE,
          warnings |-> warnings]

\* reverse_fajr_angle that accepts a fajr_time equal to midday
reverse_fajr_angle_noon(fajr_time, midday, lat, sun_data, sunrise_time, maghrib_time) ==
    IF fajr_time > midday THEN NoAngle
    ELSE IF Abs(lat) > HIGH_LATITUDE_THRESHOLD
    THEN LET night_duration == (sunrise_time + 86400) - maghrib_time
             time_diff == sunrise_time - fajr_time
         IN  IF night_duration = 0 THEN NoAngle
             ELSE AngleResult(AngleOfShare(time_diff, night_duration),
                              "high_latitude", <<"High latitude">>, "Fajr", 21000)
    ELSE LET time_offset == midday - fajr_time
         IN  IF ~ReverseHourDefined(time_offset) THEN NoAngle
             ELSE AngleResult(reverse_hour_correction(time_offset, lat, sun_data) - 90000,
                              "standard", <<>>, "Fajr", 21000)

\* reverse_fajr_angle (check_high_lat = True)
reverse_fajr_angle(fajr_time, midday, lat, sun_data, sunrise_time, maghrib_time) ==
    IF fajr_time >= midday THEN NoAngle
    ELSE IF Abs(lat) > HIGH_LATITUDE_THRESHOLD
    THEN LET night_duration == (sunrise_time + 86400) - maghrib_time
             time_diff == sunrise_time - fajr_time
         IN  IF night_duration = 0 THEN NoAngle
             ELSE AngleResult(AngleOfShare(time_diff, night_duration),
                              "high_latitude", <<"High latitude">>, "Fajr", 21000)
    ELSE LET time_offset == midday - fajr_time
         IN  IF ~ReverseHourDefined(time_offset) THEN NoAngle
             ELSE AngleResult(reverse_hour_correction(time_offset, lat, sun_data) - 90000,
                              "standard", <<>>, "Fajr", 21000)

\* reverse_isha_angle (check_high_lat = True)
reverse_isha_angle(isha_time, midday, lat, sun_data, sunrise_time, maghrib_time) ==
    IF isha_time <= maghrib_time THEN NoAngle
    ELSE IF Abs(lat) > HIGH_LATITUDE_THRESHOLD
    THEN LET night_duration == (sunrise_time + 86400) - maghrib_time
             time_diff == isha_time - maghrib_time
         IN  IF night_duration = 0 THEN NoAngle
             ELSE AngleResult(AngleOfShare(time_diff, night_duration),
                              "high_latitude", <<"High latitude">>, "Isha", 20000)
    ELSE LET time_offset == isha_time - midday
         IN  IF ~ReverseHourDefined(time_offset) THEN NoAngle
             ELSE AngleResult(reverse_hour_correction(time_offset, lat, sun_data) - 90000,
                              "standard", <<>>, "Isha", 20000)

\* calculate_isha_minutes, in tenths of a minute (round(minutes, 1))
calculate_isha_minutes(isha_time, maghrib_time) ==
    RoundHalfEven(isha_time - maghrib_time, 6)

\* validate_prayer_time_sequence that accepts a fajr equal to sunrise
validate_prayer_time_sequence_weak(fajr, sunrise, maghrib, isha) ==
    fajr <= sunrise /\ sunrise < maghrib /\ maghrib < isha

\* validate_prayer_time_sequence: TRUE when it does not raise
validate_prayer_time_sequence(fajr, sunrise, maghrib, isha) ==
    fajr < sunrise /\ sunrise < maghrib /\ maghrib < isha

NoReverse ==
    [raised |-> TRUE, fajr_angle |-> 0, fajr_method |-> "", isha_angle |-> 0,
     isha_method |-> "", isha_minutes |-> 0, midday |-> 0, sunrise |-> 0,
     warnings |-> <<>>, high_latitude |-> FALSE, valid |-> FALSE]

\* reverse_calculate that raises for an angle outside [0, 30] degrees
reverse_calculate_strict(self, date, fajr_time, maghrib_time, isha_time) ==
    LET Angles(midday, sunrise, fajr_result, isha_result) ==
            LET angle_diff == Abs(fajr_result.angle - isha_result.angle)
                all_warnings == fajr_result.warnings \o isha_result.warnings
            IN  IF fajr_result.raised \/ isha_result.raised THEN NoReverse
                ELSE IF ~(fajr_result.valid /\ isha_result.valid) THEN NoReverse
                ELSE [raised |-> FALSE,
                      fajr_angle |-> fajr_result.angle,
                      fajr_method |-> fajr_result.method,
                      isha_angle |-> isha_result.angle,
                      isha_method |-> isha_result.method,
                      isha_minutes |->
                          calculate_isha_minutes(isha_time, maghrib_time),
                      midday |-> midday,
                      sunrise |-> sunrise.time,
                      warnings |-> IF angle_diff > 10000
                                   THEN Append(all_warnings, "Large difference")
                                   ELSE all_warnings,
                      high_latitude |->
                          Abs(self.latitude) > HIGH_LATITUDE_THRESHOLD,
                      valid |-> fajr_result.valid /\ isha_result.valid]
        Validated(sun_data, midday, sunrise) ==
            IF sunrise.raised THEN NoReverse
            ELSE IF ~validate_prayer_time_sequence(fajr_time, sunrise.time,
                                                   maghrib_time, isha_time)
            THEN NoReverse
            ELSE Angles(midday, sunrise,
                    reverse_fajr_angle(fajr_time, midday, self.latitude,
                                       sun_data, sunrise.time, maghrib_time),
                    reverse_isha_angle(isha_time, midday, self.latitude,
                                       sun_data, sunrise.time, maghrib_time))
        Noon(sun_data, midday) ==
            Validated(sun_data, midday,
                sunrise_time_calc(midday, self.latitude, sun_data, self.elevation))
        Sun(sun_data) ==
            Noon(sun_data, midday_time_calc(date, self.longitude, sun_data))
    IN  Sun(sun_coordinates(julian_date(date)))

\* ReversePrayerCalculator.reverse_calculate on a calculator's location
reverse_calculate(self, date, fajr_time, maghrib_time, isha_time) ==
    LET Angles(midday, sunrise, fajr_result, isha_result) ==
            LET angle_diff == Abs(fajr_result.angle - isha_result.angle)
                all_warnings == fajr_result.warnings \o isha_result.warnings
            IN  IF fajr_result.raised \/ isha_result.raised THEN NoReverse
                ELSE [raised |-> FALSE,
                      fajr_angle |-> fajr_result.angle,
                      fajr_method |-> fajr_result.method,
                      isha_angle |-> isha_result.angle,
                      isha_method |-> isha_result.method,
                      isha_minutes |->
                          calculate_isha_minutes(isha_time, maghrib_time),
                      midday |-> midday,
                      sunrise |-> sunrise.time,
                      warnings |-> IF angle_diff > 10000
                                   THEN Append(all_warnings, "Large difference")
                                   ELSE all_warnings,
                      high_latitude |->
                          Abs(self.latitude) > HIGH_LATITUDE_THRESHOLD,
                      valid |-> fajr_result.valid /\ isha_result.valid]
        Validated(sun_data, midday, sunrise) ==
            IF sunrise.raised THEN NoReverse
            ELSE IF ~validate_prayer_time_sequence(fajr_time, sunrise.time,
                                                   maghrib_time, isha_time)
            THEN NoReverse
            ELSE Angles(midday, sunrise,
                    reverse_fajr_angle(fajr_time, midday, self.latitude,
                                       sun_data, sunrise.time, maghrib_time),
                    reverse_isha_angle(isha_time, midday, self.latitude,
                                       sun_data, sunrise.time, maghrib_time))
        Noon(sun_data, midday) ==
            Validated(sun_data, midday,
                sunrise_time_calc(midday, self.latitude, sun_data, self.elevation))
        Sun(sun_data) ==
            Noon(sun_data, midday_time_calc(date, self.longitude, sun_data))
    IN  Sun(sun_coordinates(julian_date(date)))

----------------------------------------------------------------------------
(* The objects of the solver before they are constructed *)

NoCalculator ==
    [exists |-> FALSE, latitude |-> 0, longitude |-> 0, elevation |-> 0,
     settings |-> NoSettings]

NoDate == DateTime(1, 1, 1, None)

NoArguments == <<"", "", 0, None, None, None>>

NoObserved == [fajr |-> 0, maghrib |-> 0, isha |-> 0]

NoInferred == [fajr |-> NoAngle, isha |-> NoAngle,
               fajr_theta |-> NoTheta, isha_theta |-> NoTheta]

NoTwice == [method |-> NoResult, function |-> NoResult]

NoRounding == [timestamp |-> Stamp(0, 0), once |-> Stamp(0, 0),
               twice |-> Stamp(0, 0)]

SolverIdle ==
    /\ args = NoArguments
    /\ userSettings = NoSettings /\ calculator = NoCalculator /\ calcDate = NoDate
    /\ results = NoResult /\ observed = NoObserved /\ reversed = NoReverse
    /\ inferred = NoInferred /\ again = NoResult
    /\ methods = CALCULATION_METHODS /\ twice = NoTwice
    /\ rounding = NoRounding
    /\ pc = "idle"

----------------------------------------------------------------------------
(* The Gregorian walk: consecutive datetimes handed to julian_date *)

IsLeap(y) == (y % 4 = 0) /\ ((y % 100 # 0) \/ (y % 400 = 0))

DaysInMonth(y, m) ==
    IF m = 2 THEN (IF IsLeap(y) THEN 29 ELSE 28)
    ELSE IF m \in {4, 6, 9, 11} THEN 30 ELSE 31

\* date + timedelta(days=1)
DatePlusOneDay(date) ==
    IF date.day < DaysInMonth(date.year, date.month)
    THEN Date(date.year, date.month, date.day + 1)
    ELSE IF date.month < 12 THEN Date(date.year, date.month + 1, 1)
    ELSE Date(date.year + 1, 1, 1)

JulianStartDates ==
    { Date(622, 7, 10), Date(1582, 10, 1), Date(1899, 12, 25), Date(1900, 2, 20),
      Date(1999, 12, 25), Date(2000, 2, 20), Date(2023, 2, 20),
      Date(2024, 2, 20), Date(2024, 12, 25), Date(2025, 5, 28) }

HijriIdle ==
    /\ jd = 0 /\ hwalked = 0 /\ mLen = 0 /\ mDone = 0 /\ mSeen = FALSE
    /\ yLen = 0 /\ yDone = [year |-> 0, len |-> 0] /\ ySeen = FALSE
    /\ yComplete = 0 /\ yLeaps = 0

JulianIdle == gdate = Date(1, 1, 1) /\ gorigin = Date(1, 1, 1) /\ gwalked = 0

InitJulian ==
    /\ gdate \in JulianStartDates
    /\ gorigin = gdate
    /\ gwalked = 0
    /\ HijriIdle
    /\ SolverIdle

NextGregorianDay ==
    /\ gwalked < MaxJulianWalk
    /\ gdate' = DatePlusOneDay(gdate)
    /\ gwalked' = gwalked + 1
    /\ UNCHANGED <<gorigin, jd, hwalked, mLen, mDone, mSeen, yLen, yDone,
                   ySeen, yComplete, yLeaps, solverVars>>

----------------------------------------------------------------------------
(* The Hijri walk: consecutive Julian Days handed to hijri_date *)

\* 1948440.0 (the epoch), a week before 2451544.5, both in half days
HijriStartDays == { 2 * HIJRI_EPOCH_JD, 4903089 - 14 }

SameMonth(a, b) == a.month = b.month /\ a.year = b.year

\* The walk starts counting a month (a year) once it has seen its first day:
\* at the start this is the case when the day before lies in another one.
InitHijri ==
    /\ jd \in HijriStartDays
    /\ hwalked = 0
    /\ mLen = 1 /\ mDone = 0
    /\ mSeen = ~SameMonth(hijri_date(jd - 2, 0), hijri_date(jd, 0))
    /\ yLen = 1 /\ yDone = [year |-> 0, len |-> 0]
    /\ ySeen = (hijri_date(jd - 2, 0).year # hijri_date(jd, 0).year)
    /\ yComplete = 0 /\ yLeaps = 0
    /\ JulianIdle
    /\ SolverIdle

NextJulianDay ==
    /\ hwalked < MaxHijriWalk
    /\ jd' = jd + 2
    /\ hwalked' = hwalked + 1
    /\ LET h0 == hijri_date(jd, 0)
           h1 == hijri_date(jd + 2, 0)
       IN  /\ IF SameMonth(h0, h1)
              THEN mLen' = mLen + 1 /\ UNCHANGED <<mDone, mSeen>>
              ELSE /\ mLen' = 1
                   /\ mDone' = (IF mSeen THEN mLen ELSE mDone)
                   /\ mSeen' = TRUE
           /\ IF h0.year = h1.year
              THEN yLen' = yLen + 1 /\ UNCHANGED <<yDone, ySeen, yComplete, yLeaps>>
              ELSE /\ yLen' = 1
                   /\ yDone' = (IF ySeen THEN [year |-> h0.year, len |-> yLen]
                                ELSE yDone)
                   /\ yComplete' = (IF ySeen THEN yComplete + 1 ELSE yComplete)
                   /\ yLeaps' = (IF ySeen /\ yLen = 355 THEN yLeaps + 1 ELSE yLeaps)
                   /\ ySeen' = TRUE
    /\ UNCHANGED <<gdate, gorigin, gwalked, solverVars>>

----------------------------------------------------------------------------
(* The solver: userSettings, calculator, forward run, reversed run, round trip *)

\* the arguments UserSettings is constructed with
SettingsArguments ==
    { <<m, "standard", 0, None, None, None>> : m \in MethodKeys \cup {"bogus"} }
    \cup { <<m, a, 0, f, i[1], i[2]>> :
             m \in {"isna", "uqu"}, a \in {"hanafi", "shafi"},
             f \in {None, 500, 0, 30000, 31000},
             i \in {<<None, None>>, <<500, None>>, <<None, 60>>, <<15000, 60>>,
                    <<30000, None>>, <<31000, None>>, <<None, 0>>,
                    <<None, 241>>} }
    \cup { <<"gulf", "standard", 0, 16500, 13500, None>>,
           <<"gulf", "standard", 0, None, None, 60>> }

\* the locations PrayerTimeCalculator is constructed with:
\* <<latitude, longitude, elevation>>
Locations ==
    { <<0, 0, 0>>, <<40713, -74006, 0>>, <<40713, -74006, 100>>,
      <<48500, 0, 0>>, <<60000, 0, 0>>, <<60000, -74006, 0>>,
      <<65500, 0, 100>>, <<90000, 0, 0>>,
      <<0, 39827, 0>>,                      \* just east of the Kaaba's meridian
      <<0, 181000, 0>>, <<120000, 0, 0>>,   \* outside the coordinate ranges
      <<40713, -74006, -50>> }              \* below sea level
Dates == { DateTime(2025, 1, 1, None), DateTime(2025, 3, 11, None),
           DateTime(2025, 6, 21, None), DateTime(2025, 6, 21, -4) }

\* the fajr, maghrib and isha times observed for a forward result: the result
\* itself, and times moved onto or across the instants they are compared with
Observe(f, m, i) == [fajr |-> f, maghrib |-> m, isha |-> i]
Observations(r) ==
    { Observe(r.fajr, r.maghrib, r.isha),
      Observe(r.midday, r.maghrib, r.maghrib),
      Observe(r.fajr - 5400, r.maghrib, r.isha + 5400),
      Observe(r.sunrise, r.maghrib, r.maghrib + 60),
      Observe(r.sunrise + 1800, r.maghrib, r.isha),
      Observe(r.sunrise - 65, r.maghrib, r.isha),
      Observe(r.fajr, r.isha, r.maghrib),
      Observe(r.fajr, r.maghrib, r.maghrib + 300),
      Observe(r.midday + 60, r.maghrib, r.midday + 43260),
      Observe(r.midday - 43260, r.maghrib, r.midday + 43200) }

\* the timestamps handed to round_time: seconds 0, 1, 29, 30, 31, 59 of a
\* minute at the start, the end and the middle of an hour and of a day, with
\* and without microseconds
Timestamps ==
    { Stamp(minute + second, microsecond) :
        minute \in {-60, 0, 3540, 43200, 86340},
        second \in {0, 1, 29, 30, 31, 59},
        microsecond \in {0, 1, 500000, 999999} }

InitSolver ==
    /\ args = NoArguments
    /\ userSettings = NoSettings /\ calculator = NoCalculator /\ calcDate = NoDate
    /\ results = NoResult /\ observed = NoObserved /\ reversed = NoReverse
    /\ inferred = NoInferred /\ again = NoResult
    /\ methods = CALCULATION_METHODS /\ twice = NoTwice
    /\ rounding = NoRounding
    /\ pc = "start"
    /\ JulianIdle
    /\ HijriIdle

\* userSettings = UserSettings(...)
NewUserSettings ==
    /\ pc = "start"
    /\ pc' = "UserSettings"
    /\ \E a \in SettingsArguments :
          /\ args' = a
          /\ userSettings' = UserSettings(a[1], a[2], a[3], a[4], a[5], a[6])
    /\ UNCHANGED <<calculator, calcDate, results, observed, reversed, inferred,
                   again, methods, twice, rounding,
                   calVars>>

\* calculator = PrayerTimeCalculator(latitude, longitude, elevation, userSettings)
NewCalculator ==
    /\ pc = "UserSettings" /\ ~userSettings.raised
    /\ pc' = "PrayerTimeCalculator"
    /\ \E loc \in Locations :
          calculator' = [exists |-> TRUE, latitude |-> loc[1],
                         longitude |-> loc[2], elevation |-> loc[3],
                         settings |-> userSettings]
    /\ UNCHANGED <<args, userSettings, calcDate, results, observed, reversed,
                   inferred, again, methods, twice, rounding,
                   calVars>>

\* results = calculator.calculate(calcDate)
Calculate ==
    /\ pc = "PrayerTimeCalculator"
    /\ pc' = "calculate"
    /\ \E d \in Dates :
          /\ calcDate' = d
          /\ results' = calculate(calculator, d)
    /\ UNCHANGED <<args, userSettings, calculator, observed, reversed, inferred,
                   again, methods, twice, rounding,
                   calVars>>

\* reversed = ReversePrayerCalculator(lat, lng, elev).reverse_calculate(
\*               calcDate, observed fajr, observed maghrib, observed isha)
ReverseCalculate ==
    /\ pc = "calculate" /\ ~results.raised
    /\ pc' = "reverse_calculate"
    /\ \E o \in Observations(results) :
          /\ observed' = o
          /\ reversed' = reverse_calculate(calculator, calcDate, o.fajr,
                                           o.maghrib, o.isha)
    /\ UNCHANGED <<args, userSettings, calculator, calcDate, results, inferred,
                   again, methods, twice, rounding,
                   calVars>>

\* inferred = reverse_fajr_angle(observed fajr, midday, lat, sun_data,
\*                               sunrise, maghrib),
\*            reverse_isha_angle(observed isha, midday, lat, sun_data,
\*                               sunrise, observed maghrib)
\* with midday and sun_data computed apart and sunrise, maghrib of the result;
\* fajr_theta, isha_theta = _reverse_hour_correction(midday - observed fajr),
\*                          _reverse_hour_correction(observed isha - midday)
ReverseAngles ==
    /\ pc = "calculate" /\ ~results.raised
    /\ pc' = "reverse_angles"
    /\ \E o \in Observations(results) :
          /\ observed' = o
          /\ inferred' =
                [fajr |-> reverse_fajr_angle(o.fajr, results.midday,
                              calculator.latitude,
                              sun_coordinates(julian_date(calcDate)),
                              results.sunrise, results.maghrib),
                 isha |-> reverse_isha_angle(o.isha, results.midday,
                              calculator.latitude,
                              sun_coordinates(julian_date(calcDate)),
                              results.sunrise, o.maghrib),
                 fajr_theta |-> ReverseHourCorrection(results.midday - o.fajr,
                              calculator.latitude,
                              sun_coordinates(julian_date(calcDate))),
                 isha_theta |-> ReverseHourCorrection(o.isha - results.midday,
                              calculator.latitude,
                              sun_coordinates(julian_date(calcDate)))]
    /\ UNCHANGED <<args, userSettings, calculator, calcDate, results, reversed,
                   again, methods, twice, rounding,
                   calVars>>

\* again = PrayerTimeCalculator(lat, lng, elev, UserSettings(method,
\*             fajr_angle=reversed fajr_angle, isha_angle=reversed isha_angle)
\*         ).calculate(calcDate), for the times of the forward result
RoundTrip ==
    /\ pc = "reverse_calculate" /\ ~reversed.raised
    /\ observed = Observe(results.fajr, results.maghrib, results.isha)
    /\ pc' = "round_trip"
    /\ LET recovered == UserSettings(userSettings.calculation_method,
                                     userSettings.asr_method,
                                     userSettings.hijri_correction,
                                     reversed.fajr_angle, reversed.isha_angle, None)
       IN  again' = IF recovered.raised THEN NoResult
                    ELSE calculate([calculator EXCEPT !.settings = recovered], calcDate)
    /\ UNCHANGED <<args, userSettings, calculator, calcDate, results, observed,
                   reversed, inferred, methods, twice, rounding,
                   calVars>>

\* twice = calculator.calculate(calcDate) once more on the same object, and
\*         calculate_prayer_times(latitude, longitude, elevation, calcDate,
\*                                userSettings)
CalculateTwice ==
    /\ pc = "calculate"
    /\ pc' = "calculate_twice"
    /\ twice' = [method |-> calculate(calculator, calcDate),
                 function |-> calculate_prayer_times(calculator.latitude,
                                  calculator.longitude, calculator.elevation,
                                  calcDate, userSettings)]
    /\ UNCHANGED <<args, userSettings, calculator, calcDate, results, observed,
                   reversed, inferred, again, methods, rounding,
                   calVars>>

\* rounding = timestamp, round_time(timestamp), round_time(round_time(timestamp))
RoundTime ==
    /\ pc = "start"
    /\ pc' = "round_time"
    /\ \E timestamp \in Timestamps :
          rounding' = [timestamp |-> timestamp, once |-> round_time(timestamp),
                       twice |-> round_time(round_time(timestamp))]
    /\ UNCHANGED <<args, userSettings, calculator, calcDate, results, observed,
                   reversed, inferred, again, methods, twice, calVars>>

NextSolver ==
    \/ RoundTime
    \/ NewUserSettings
    \/ NewCalculator
    \/ Calculate
    \/ CalculateTwice
    \/ ReverseCalculate
    \/ ReverseAngles
    \/ RoundTrip

SpecSolver == InitSolver /\ [][NextSolver]_vars

----------------------------------------------------------------------------

NextJulian == NextGregorianDay
NextHijri == NextJulianDay

SpecJulian == InitJulian /\ [][NextJulian]_vars
SpecHijri == InitHijri /\ [][NextHijri]_vars

----------------------------------------------------------------------------
(* Claims about the forward and the reverse solver *)

\* the calculator's coordinates are in the documented ranges
CoordinatesInRange ==
    /\ calculator.latitude \in -90000..90000
    /\ calculator.longitude \in -180000..180000

\* calculate has returned a result for coordinates in range
Returned ==
    /\ CoordinatesInRange
    /\ pc \in {"calculate", "calculate_twice", "reverse_calculate",
              "reverse_angles", "round_trip"}
    /\ ~results.raised

\* C1: the times calculate returns satisfy
\* fajr < sunrise < dhuhr < asr < maghrib < isha, for every valid input.
C1_ChronologicalOrder ==
    Returned =>
        /\ results.fajr < results.sunrise
        /\ results.sunrise < results.dhuhr
        /\ results.dhuhr < results.asr
        /\ results.asr < results.maghrib
        /\ results.maghrib < results.isha

\* the settings carry no override and the method is angle-based
PlainAngleMethod ==
    /\ CoordinatesInRange
    /\ userSettings.fajr_angle = None
    /\ userSettings.isha_angle = None
    /\ userSettings.isha_interval = None
    /\ get_method_config(userSettings.calculation_method).isha_type = "angle"

\* the times observed are the fajr, maghrib and isha of the forward result
ForwardObserved == observed = Observe(results.fajr, results.maghrib, results.isha)

\* C2: for an angle-based method, reverse_calculate of the forward fajr,
\* maghrib and isha recovers both angles within 0.5 degrees, and the forward
\* solver with the recovered angles reproduces fajr and isha within 120 s.
C2_RoundTrip ==
    LET method == get_method_config(userSettings.calculation_method)
    IN  /\ (pc = "reverse_calculate" /\ PlainAngleMethod /\ ForwardObserved) =>
              /\ ~reversed.raised
              /\ Abs(reversed.fajr_angle - method.fajr_angle) <= 500
              /\ Abs(reversed.isha_angle - method.isha_angle) <= 500
        /\ (pc = "round_trip" /\ PlainAngleMethod) =>
              /\ ~again.raised
              /\ Abs(again.fajr - results.fajr) <= 120
              /\ Abs(again.isha - results.isha) <= 120

\* C3: above 48.5 degrees fajr is sunrise - night * (fajr_angle / 60) with
\* night = (sunrise + 24 hours) - maghrib, the night isha_time_calc uses.
C3_HighLatitudeFajr ==
    (Returned /\ Abs(calculator.latitude) > HIGH_LATITUDE_THRESHOLD) =>
        LET night == (results.sunrise + 86400) - results.maghrib
            fajr_angle == get_fajr_angle(userSettings.calculation_method,
                                         userSettings)
        IN  results.fajr = results.sunrise - NightShare(night, fajr_angle)

\* C4: solar midday and the six times fall on the calendar date of the
\* observation instant and carry its UTC offset.
C4_SameDateAndOffset ==
    Returned =>
        /\ \A t \in {results.midday, results.fajr, results.sunrise,
                      results.dhuhr, results.asr, results.maghrib,
                      results.isha} : 0 <= t /\ t < 86400
        /\ results.tz = calcDate.tz

\* C11: the bearing calculate returns is q hundredths of a degree with
\* 0 <= q < 360 degrees: the rounding step never produces 360.0.
C11_QiblaRange ==
    Returned => (0 <= results.qibla /\ results.qibla < 36000)

\* C12: when the resolved Isha configuration is fixed-time, isha is maghrib
\* plus the configured minutes, the Ramadan value when the Hijri month of the
\* date is 9 and the normal value otherwise, at every latitude.
C12_FixedTimeIsha ==
    LET isha_config == get_isha_config(userSettings.calculation_method,
                                       userSettings)
    IN  (Returned /\ isha_config.type = "fixed_time") =>
            results.isha = results.maghrib
                + 60 * (IF results.hijri_date.month = 9
                        THEN isha_config.offset_ramadan
                        ELSE isha_config.offset_normal)

\* 'uqu' above 48.5 degrees in Ramadan: isha is 120 minutes after maghrib
C12_Witness ==
    /\ pc = "calculate" /\ ~results.raised
    /\ userSettings.calculation_method = "uqu"
    /\ userSettings.isha_interval = None /\ userSettings.isha_angle = None
    /\ calculator.latitude = 60000
    /\ results.hijri_date.month = 9
    /\ results.isha = results.maghrib + 7200

\* UserSettings has been called with the arguments args
Constructed == pc # "start" /\ pc # "idle"

\* C13: UserSettings with both isha_angle and isha_interval set raises and
\* yields no settings object, so no calculator holds both Isha overrides.
C13_BothIshaOverrides ==
    /\ (Constructed /\ args[5] # None /\ args[6] # None) => userSettings.raised
    /\ ~userSettings.raised =>
          (userSettings.isha_angle = None \/ userSettings.isha_interval = None)
    /\ calculator.exists =>
          (calculator.settings.isha_angle = None
           \/ calculator.settings.isha_interval = None)

\* both overrides are in their ranges and the constructor has raised
C13_Witness ==
    /\ pc = "UserSettings" /\ userSettings.raised
    /\ args[1] \in MethodKeys /\ args[2] = "hanafi" /\ args[4] = None
    /\ args[5] = 15000 /\ args[6] = 60

\* the arguments hold a value UserSettings documents as invalid
InvalidArguments ==
    \/ args[1] \notin MethodKeys
    \/ args[2] \notin {"standard", "hanafi"}
    \/ args[4] # None /\ (args[4] <= 0 \/ args[4] > 30000)
    \/ args[5] # None /\ (args[5] <= 0 \/ args[5] > 30000)
    \/ args[6] # None /\ (args[6] < 0 \/ args[6] > 240)

\* C14: UserSettings raises for an unknown method key, an asr_method other
\* than 'standard' and 'hanafi', a fajr_angle or isha_angle outside 0 to 30
\* degrees (0 is rejected) and an isha_interval outside 0 to 240 minutes; a
\* settings object that exists holds values in range only.
C14_SettingsValidation ==
    /\ (Constructed /\ InvalidArguments) => userSettings.raised
    /\ ~userSettings.raised =>
          /\ userSettings.calculation_method \in MethodKeys
          /\ userSettings.asr_method \in {"standard", "hanafi"}
          /\ userSettings.fajr_angle \in {None} \cup (1..30000)
          /\ userSettings.isha_angle \in {None} \cup (1..30000)
          /\ userSettings.isha_interval \in {None} \cup (0..240)

\* a fajr_angle of 0 with everything else valid: the constructor has raised
C14_Witness ==
    /\ pc = "UserSettings" /\ userSettings.raised
    /\ args[1] \in MethodKeys /\ args[2] = "hanafi"
    /\ args[4] = 0 /\ args[5] = None /\ args[6] = None

\* C15: calculate raises, and returns no times, for a calculator whose
\* latitude is outside [-90, 90] or whose longitude is outside [-180, 180].
C15_CoordinateValidation ==
    (pc = "calculate" /\ ~CoordinatesInRange) => results.raised

\* C16: a negative elevation does not make the forward solver fail: where
\* calculate returns times at sea level it returns times below sea level.
C16_NegativeElevation ==
    (/\ pc = "calculate" /\ CoordinatesInRange
     /\ calculator.elevation < 0
     /\ ~calculate([calculator EXCEPT !.elevation = 0], calcDate).raised)
        => ~results.raised

\* the sunrise reverse_calculate computes for the calculator and the date
ComputedSunrise ==
    LET sun_data == sun_coordinates(julian_date(calcDate))
    IN  sunrise_time_calc(midday_time_calc(calcDate, calculator.longitude, sun_data),
                          calculator.latitude, sun_data, calculator.elevation)

\* C17: reverse_calculate raises and returns no result whenever the observed
\* times do not satisfy fajr < computed sunrise < maghrib < isha, strictly.
C17_SequenceValidation ==
    pc = "reverse_calculate" =>
        ((\/ ComputedSunrise.raised
          \/ ~(observed.fajr < ComputedSunrise.time)
          \/ ~(ComputedSunrise.time < observed.maghrib)
          \/ ~(observed.maghrib < observed.isha)) => reversed.raised)

\* the observed fajr is the computed sunrise, the rest is in order
C17_Witness ==
    /\ pc = "reverse_calculate" /\ reversed.raised
    /\ ~ComputedSunrise.raised
    /\ observed.fajr = ComputedSunrise.time
    /\ ComputedSunrise.time < observed.maghrib
    /\ observed.maghrib < observed.isha

\* C18: reverse_fajr_angle raises whenever fajr_time >= midday and
\* reverse_isha_angle raises whenever isha_time <= maghrib_time, equality
\* included, in the standard and in the high-latitude branch.
C18_ReverseGuards ==
    pc = "reverse_angles" =>
        /\ (observed.fajr >= results.midday) => inferred.fajr.raised
        /\ (observed.isha <= observed.maghrib) => inferred.isha.raised

\* fajr at midday and isha at maghrib, above 48.5 degrees
C18_Witness ==
    /\ pc = "reverse_angles"
    /\ Abs(calculator.latitude) > HIGH_LATITUDE_THRESHOLD
    /\ observed.fajr = results.midday /\ observed.isha = observed.maghrib
    /\ inferred.fajr.raised /\ inferred.isha.raised

Warned(result, warning) ==
    \E k \in 1..Len(result.warnings) : result.warnings[k] = warning

\* C19: a reverse result is invalid exactly when its angle is outside
\* [0, 30] degrees; an angle inside [0, 30] and outside 12 to 21 (Fajr) or
\* 12 to 20 (Isha) carries a warning and is valid; 'valid' of
\* reverse_calculate holds exactly when both angles are valid.
C19_ValidFlags ==
    /\ pc = "reverse_angles" =>
          /\ ~inferred.fajr.raised =>
                /\ inferred.fajr.valid = (inferred.fajr.angle \in 0..30000)
                /\ (/\ inferred.fajr.angle \in 0..30000
                    /\ inferred.fajr.angle \notin 12000..21000)
                      => Warned(inferred.fajr, "Fajr outside typical range")
          /\ ~inferred.isha.raised =>
                /\ inferred.isha.valid = (inferred.isha.angle \in 0..30000)
                /\ (/\ inferred.isha.angle \in 0..30000
                    /\ inferred.isha.angle \notin 12000..20000)
                      => Warned(inferred.isha, "Isha outside typical range")
    /\ (pc = "reverse_calculate" /\ ~reversed.raised) =>
          reversed.valid = (/\ reversed.fajr_angle \in 0..30000
                            /\ reversed.isha_angle \in 0..30000)

\* an angle of exactly 0 degrees: valid, with the warning
C19_Witness ==
    /\ pc = "reverse_angles" /\ ~inferred.fajr.raised
    /\ inferred.fajr.angle = 0 /\ inferred.fajr.valid
    /\ Warned(inferred.fajr, "Fajr outside typical range")

\* C20: in a returned result sunrise and maghrib are equally far from solar
\* midday, and dhuhr is exactly 65 seconds after solar midday.
C20_SunriseMaghribSymmetry ==
    Returned =>
        /\ results.dhuhr = results.midday + 65
        /\ results.midday - results.sunrise = results.maghrib - results.midday

\* asr_time_calc for the calculator's latitude and the date, from dhuhr
AsrOf(hanafi) ==
    asr_time_calc(results.dhuhr, calculator.latitude,
                  sun_coordinates(julian_date(calcDate)), hanafi)

SunAngleTime(side, angle) ==
    results.dhuhr
    + side * hour_correction(90000 + angle, calculator.latitude,
                             sun_coordinates(julian_date(calcDate)))

\* the result was computed with the angle rule of latitudes up to 48.5 degrees
LowLatitude == Abs(calculator.latitude) <= HIGH_LATITUDE_THRESHOLD

\* C24: a custom fajr_angle replaces the method's Fajr angle; a custom
\* isha_interval makes Isha fixed-time with that interval in and out of
\* Ramadan; a custom isha_angle makes Isha angle-based also for 'uqu' and
\* 'gulf'; without an override the values of the method table are used.
C24_OverrideResolution ==
    (Returned /\ pc = "calculate") =>
        LET table == CALCULATION_METHODS[userSettings.calculation_method]
            fajr_angle == IF userSettings.fajr_angle # None
                          THEN userSettings.fajr_angle ELSE table.fajr_angle
            isha_config == get_isha_config(userSettings.calculation_method,
                                           userSettings)
        IN  /\ get_fajr_angle(userSettings.calculation_method, userSettings)
                  = fajr_angle
            /\ LowLatitude => results.fajr = SunAngleTime(-1, fajr_angle)
            /\ userSettings.isha_interval # None =>
                  /\ isha_config.type = "fixed_time"
                  /\ results.isha
                        = results.maghrib + 60 * userSettings.isha_interval
            /\ (userSettings.isha_interval = None
                    /\ userSettings.isha_angle # None) =>
                  /\ isha_config.type = "angle"
                  /\ isha_config.angle = userSettings.isha_angle
                  /\ LowLatitude =>
                        results.isha = SunAngleTime(1, userSettings.isha_angle)
            /\ (userSettings.isha_interval = None
                    /\ userSettings.isha_angle = None) =>
                  /\ isha_config.type = table.isha_type
                  /\ table.isha_type = "angle" =>
                        /\ isha_config.angle = table.isha_angle
                        /\ LowLatitude =>
                              results.isha = SunAngleTime(1, table.isha_angle)
                  /\ table.isha_type = "fixed_time" =>
                        results.isha = results.maghrib + 60 *
                            (IF results.hijri_date.month = 9
                             THEN table.isha_offset_ramadan
                             ELSE table.isha_offset_normal)

\* 'uqu' with a custom isha_angle of 0.5 degrees: Isha by the angle
C24_Witness ==
    /\ Returned /\ pc = "calculate" /\ LowLatitude
    /\ userSettings.calculation_method = "uqu"
    /\ userSettings.isha_angle = 500 /\ userSettings.isha_interval = None
    /\ results.isha = SunAngleTime(1, 500)
    /\ results.isha # results.maghrib + 60 * 90

\* C25: _reverse_hour_correction raises for every time offset below 0 or
\* above 12 hours and returns an angle in [0, 180] degrees for every offset
\* in [0, 12]; reverse_fajr_angle and reverse_isha_angle raise when it does.
C25_ReverseHourDomain ==
    pc = "reverse_angles" =>
        LET fajr_offset == results.midday - observed.fajr
            isha_offset == observed.isha - results.midday
        IN  /\ inferred.fajr_theta.raised
                  = (fajr_offset < 0 \/ fajr_offset > 43200)
            /\ inferred.isha_theta.raised
                  = (isha_offset < 0 \/ isha_offset > 43200)
            /\ ~inferred.fajr_theta.raised =>
                  inferred.fajr_theta.theta \in 0..180000
            /\ ~inferred.isha_theta.raised =>
                  inferred.isha_theta.theta \in 0..180000
            /\ (LowLatitude /\ inferred.fajr_theta.raised) =>
                  inferred.fajr.raised
            /\ (LowLatitude /\ inferred.isha_theta.raised) =>
                  inferred.isha.raised

\* fajr more than 12 hours before midday, isha exactly 12 hours after it
C25_Witness ==
    /\ pc = "reverse_angles" /\ LowLatitude
    /\ results.midday - observed.fajr > 43200
    /\ inferred.fajr_theta.raised /\ inferred.fajr.raised
    /\ observed.isha - results.midday = 43200
    /\ ~inferred.isha_theta.raised /\ ~inferred.isha.raised

\* the observed times pass the ordering and domain checks of reverse_calculate
PassesChecks ==
    /\ ~ComputedSunrise.raised
    /\ observed.fajr < ComputedSunrise.time
    /\ ComputedSunrise.time < observed.maghrib
    /\ observed.maghrib < observed.isha
    /\ LowLatitude => /\ results.midday - observed.fajr <= 43200
                      /\ observed.isha - results.midday <= 43200
    /\ ~LowLatitude => (ComputedSunrise.time + 86400) - observed.maghrib # 0

\* C26: when the observed times pass the ordering and domain checks,
\* reverse_calculate returns a result, also for invalid or atypical angles,
\* whose warnings name them; the divergence warning is in the list exactly
\* when the two angles differ by more than 10 degrees, and 'valid' depends
\* on the two angles only.
C26_WarningsDoNotAbort ==
    pc = "reverse_calculate" =>
        /\ PassesChecks => ~reversed.raised
        /\ ~reversed.raised =>
              /\ Warned(reversed, "Large difference")
                    = (Abs(reversed.fajr_angle - reversed.isha_angle) > 10000)
              /\ reversed.fajr_angle \notin 0..30000 =>
                    Warned(reversed, "Fajr outside valid range")
              /\ reversed.isha_angle \notin 0..30000 =>
                    Warned(reversed, "Isha outside valid range")
              /\ reversed.valid = (/\ reversed.fajr_angle \in 0..30000
                                    /\ reversed.isha_angle \in 0..30000)

\* a result with an invalid Fajr angle and the divergence warning
C26_Witness ==
    /\ pc = "reverse_calculate" /\ PassesChecks /\ ~reversed.raised
    /\ ~reversed.valid
    /\ Warned(reversed, "Fajr outside valid range")
    /\ Warned(reversed, "Large difference")

\* the names of the six times of a result
TimeNames == {"fajr", "sunrise", "dhuhr", "asr", "maghrib", "isha"}

\* C27: round_time returns a timestamp with second 0 and microsecond 0 that
\* is at most 30 seconds from its argument, later when the second is 30 or
\* more and not later otherwise; rounding twice is rounding once; every
\* entry of times_rounded is the matching time rounded in this way.
C27_RoundTime ==
    /\ pc = "round_time" =>
          LET moved == rounding.once.seconds - rounding.timestamp.seconds
              distance == moved * 1000000 - rounding.timestamp.microsecond
          IN  /\ rounding.once.seconds % 60 = 0
              /\ rounding.once.microsecond = 0
              /\ Abs(distance) <= 30000000
              /\ (rounding.timestamp.seconds % 60 >= 30) = (moved > 0)
              /\ rounding.twice = rounding.once
    /\ Returned =>
          \A name \in TimeNames :
             /\ results.times_rounded[name] % 60 = 0
             /\ Abs(results.times_rounded[name] - results[name]) <= 30
             /\ (results[name] % 60 >= 30)
                   = (results.times_rounded[name] > results[name])

\* 23:59:30.000001 is rounded up into the next day
C27_Witness ==
    /\ pc = "round_time"
    /\ rounding.timestamp = Stamp(86370, 1)
    /\ rounding.once = Stamp(86400, 0)
    /\ rounding.twice = Stamp(86400, 0)

\* C28: the sunrise reverse_calculate computes for a date and a place is the
\* sunrise calculate returns for them.
C28_SameSunrise ==
    (pc = "reverse_calculate" /\ CoordinatesInRange /\ ~reversed.raised) =>
        reversed.sunrise = results.sunrise

\* UserSettings takes the angle as a custom fajr_angle and as a custom isha_angle
AcceptedAsOverride(angle) ==
    /\ ~UserSettings(DEFAULT_CALCULATION_METHOD, DEFAULT_ASR_METHOD,
                     DEFAULT_HIJRI_CORRECTION, angle, None, None).raised
    /\ ~UserSettings(DEFAULT_CALCULATION_METHOD, DEFAULT_ASR_METHOD,
                     DEFAULT_HIJRI_CORRECTION, None, angle, None).raised

\* C29: every angle the reverse solver returns with valid = true is accepted
\* by UserSettings as a custom fajr_angle and as a custom isha_angle.
C29_ValidAngleAccepted ==
    /\ pc = "reverse_angles" =>
          /\ (~inferred.fajr.raised /\ inferred.fajr.valid) =>
                AcceptedAsOverride(inferred.fajr.angle)
          /\ (~inferred.isha.raised /\ inferred.isha.valid) =>
                AcceptedAsOverride(inferred.isha.angle)
    /\ (pc = "reverse_calculate" /\ ~reversed.raised /\ reversed.valid) =>
          /\ AcceptedAsOverride(reversed.fajr_angle)
          /\ AcceptedAsOverride(reversed.isha_angle)

----------------------------------------------------------------------------
(* Claims about the calendar converter *)

Corrections == -2 .. 2
LeapPositions == {2, 5, 7, 10, 13, 16, 18, 21, 24, 26, 29}
AtOrAfterEpoch == jd >= 2 * HIJRI_EPOCH_JD

\* b is the calendar day right after a
HijriSuccessor(a, b) ==
    \/ b.year = a.year /\ b.month = a.month /\ b.day = a.day + 1
    \/ b.year = a.year /\ b.month = a.month + 1 /\ b.day = 1
    \/ b.year = a.year + 1 /\ a.month = 12 /\ b.month = 1 /\ b.day = 1

\* C5: for two dates d1 <= d2, julian_date(d2) - julian_date(d1) is the
\* number of calendar days from d1 to d2 (consecutive dates differ by 1.0).
C5_JulianDayDifference ==
    julian_date(gdate) - julian_date(gorigin) = 2 * gwalked

\* C6: raising the correction by one day moves the Hijri calcDate to its
\* immediate calendar successor, for every Julian Day at or after the epoch.
C6_CorrectionIsSuccessor ==
    AtOrAfterEpoch =>
        \A c \in Corrections :
            HijriSuccessor(hijri_date(jd, c), hijri_date(jd, c + 1))

\* a correction of +1 rolls the last day of a year into 1 Muharram
C6_Witness ==
    /\ AtOrAfterEpoch
    /\ hijri_date(jd, 0).month = 12
    /\ hijri_date(jd, 1).month = 1 /\ hijri_date(jd, 1).day = 1

\* C7: day is in 1..30, month in 1..12, and every month walked from its
\* first to its last day lasted 29 or 30 days.
C7_DayMonthRangeAndLength ==
    AtOrAfterEpoch =>
        /\ hijri_date(jd, 0).day \in 1 .. 30
        /\ hijri_date(jd, 0).month \in 1 .. 12
        /\ mDone # 0 => mDone \in {29, 30}
        /\ mSeen => mLen <= 30

\* a twelfth month of 30 days has just been completed
C7_Witness ==
    /\ AtOrAfterEpoch /\ mDone = 30 /\ mLen = 1
    /\ hijri_date(jd, 0).month = 1

\* C8: 10631 days later the Hijri calcDate has the same day and month and a
\* year 30 greater.
C8_CyclePeriod ==
    AtOrAfterEpoch =>
        LET h == hijri_date(jd, 0)
            k == hijri_date(jd + 2 * 10631, 0)
        IN  k.day = h.day /\ k.month = h.month /\ k.year = h.year + 30

\* the last day of the first 30-year cycle
C8_Witness ==
    AtOrAfterEpoch /\ hijri_date(jd, 0) = [day |-> 29, month |-> 12, year |-> 30]

\* C9: a year has 355 days exactly when its position in the 30-year cycle
\* is a leap position and 354 days otherwise; 11 of 30 years are leap.
C9_YearLengths ==
    /\ yDone.len # 0 =>
          yDone.len = (IF (yDone.year % 30) \in LeapPositions THEN 355 ELSE 354)
    /\ yComplete = 30 => yLeaps = 11

\* thirty whole years have been walked, the last of them a common year
C9_Witness == yComplete = 30 /\ yDone.len = 354 /\ yLeaps = 11

C23_EquationOfTimeSmall ==
    jd >= 4903089 - 14 =>
        Abs(equation_of_time(sun_coordinates(jd))) <= 1200

\* C30: hijri_date(julian_date(d)) for d = 16 July 622, the date of
\* HIJRI_EPOCH_JD, is 1 Muharram of year 1, as hijri_date(1948440) is.
C30_EpochComposition ==
    gdate = Date(622, 7, 16) =>
        /\ hijri_date(2 * HIJRI_EPOCH_JD, 0) = [day |-> 1, month |-> 1, year |-> 1]
        /\ hijri_date(julian_date(gdate), 0) = [day |-> 1, month |-> 1, year |-> 1]

====
